---- MODULE Spec2Model ----
(***************************************************************************)
(* State-machine model of the e-mail OTP server (src/unnamed/part_000):    *)
(* the in-memory OTP and token stores, the users.json directory, the       *)
(* janitor timer and the handlers /send-otp, /verify-otp, /register, /me.  *)
(* The synchronous handlers are one action each; the async handlers        *)
(* (/register, /me) are split at their awaits on file I/O.                 *)
(***************************************************************************)
EXTENDS Integers, Sequences, FiniteSets, TLC

VARIABLES
    now,         \* Date.now(), in ms
    nextSweep,   \* the time the janitor's interval timer is next due
    otpStore,    \* Map email -> {otp, expiresAt, attempts}
    tokenStore,  \* Map token -> {email, expiresAt}
    usersFile,   \* users.json: whether it exists, and the array it holds
    procs,       \* the async handlers in flight, with their locals
    resp,        \* the last HTTP response sent, with the request it answers
    quota,       \* the workload the environment offers (fixed by Init)
    used,        \* how much of the workload has been spent
    sentAt,      \* history: email -> time of its accepted /send-otp, kept
                 \*   while that is less than OTP_EXPIRES_SECONDS - 250 s ago
    consumed     \* history: token -> email, for each /register that returned 200

vars == <<now, nextSweep, otpStore, tokenStore, usersFile, procs, resp,
          quota, used, sentAt, consumed>>

(***************************************************************************)
(* Program constants                                                       *)
(***************************************************************************)
OTP_EXPIRES_SECONDS == 300
TOKEN_EXPIRES_SECONDS == 900
RESEND_MARGIN_SECONDS == 250
MAX_ATTEMPTS == 6
SWEEP_INTERVAL_MS == 60 * 1000

(***************************************************************************)
(* Bounds of the model: four workloads                                     *)
(***************************************************************************)
DirSends == 2        \* directory workload: accepted /send-otp requests,
DirTokens == 2       \*   session tokens minted,
DirReqs == 2         \*   /register and /me requests,
DirProcs == 2        \*   async handlers in flight at once,
DirSweeps == 1       \*   janitor periods the clock runs through
OtpSends == 1        \* challenge workload
OtpTokens == 1
OtpReqs == 2
OtpProcs == 1
OtpSweeps == 6
ResSends == 2        \* resend workload
ResTokens == 2
ResReqs == 2
ResProcs == 1
ResSweeps == 1
ExpSends == 1        \* token-expiry workload
ExpTokens == 1
ExpReqs == 2
ExpProcs == 1
ExpSweeps == 16
LiveSends == 1       \* eviction workload
LiveTokens == 1
LiveReqs == 2
LiveProcs == 1
LiveSweeps == 1
GuessSends == 2      \* guessing workload
GuessTokens == 1
GuessReqs == 2
GuessProcs == 1
GuessSweeps == 1

TickSteps == {60000}                 \* ms the clock may advance in one step
StartTimes == {0, 50000}             \* ms the server is up at the first request
NoToken == 0                         \* a request without a token
Codes == {"000000", "123456"}
NoCode == ""
Names == {"Alice"}
NoName == ""
UserIds == {"9f3a"}
NoEmail == <<>>                      \* the empty string
Emails == { <<"a", "@", "x">>, <<"A", "@", "x">>, <<"b", "@", "x">> }

\* many clients racing on the directory, each submitting the code it was sent
DirectoryLoad ==
    [emails |-> Emails, otps |-> {"123456"}, guesses |-> {"123456"},
     sends |-> DirSends, tokens |-> DirTokens, reqs |-> DirReqs,
     procs |-> DirProcs, sweeps |-> DirSweeps, starts |-> {0},
     ticking |-> {0}, drain |-> FALSE]

\* one address, guessed codes, a challenge's whole lifetime
ChallengeLoad ==
    [emails |-> {<<"a", "@", "x">>}, otps |-> {"123456"}, guesses |-> Codes,
     sends |-> OtpSends, tokens |-> OtpTokens, reqs |-> OtpReqs,
     procs |-> OtpProcs, sweeps |-> OtpSweeps, starts |-> {50000},
     ticking |-> {1}, drain |-> FALSE]

\* one address, challenges requested and used in quick succession
ResendLoad ==
    [emails |-> {<<"a", "@", "x">>}, otps |-> {"123456"}, guesses |-> Codes,
     sends |-> ResSends, tokens |-> ResTokens, reqs |-> ResReqs,
     procs |-> ResProcs, sweeps |-> ResSweeps, starts |-> {50000},
     ticking |-> {1, 2}, drain |-> FALSE]

\* two addresses with a challenge each, guessed codes
GuessLoad ==
    [emails |-> {<<"a", "@", "x">>, <<"b", "@", "x">>}, otps |-> Codes,
     guesses |-> Codes, sends |-> GuessSends, tokens |-> GuessTokens,
     reqs |-> GuessReqs, procs |-> GuessProcs, sweeps |-> GuessSweeps,
     starts |-> {0}, ticking |-> {0}, drain |-> FALSE]

\* one address, the clock running on until every entry is due for eviction
LiveLoad ==
    [emails |-> {<<"a", "@", "x">>}, otps |-> {"123456"}, guesses |-> Codes,
     sends |-> LiveSends, tokens |-> LiveTokens, reqs |-> LiveReqs,
     procs |-> LiveProcs, sweeps |-> LiveSweeps, starts |-> {50000},
     ticking |-> 1..LiveSends, drain |-> TRUE]

\* one address, a token's whole lifetime
ExpiryLoad ==
    [emails |-> {<<"a", "@", "x">>}, otps |-> {"123456"}, guesses |-> {"123456"},
     sends |-> ExpSends, tokens |-> ExpTokens, reqs |-> ExpReqs,
     procs |-> ExpProcs, sweeps |-> ExpSweeps, starts |-> StartTimes,
     ticking |-> {1}, drain |-> FALSE]

(***************************************************************************)
(* Helpers                                                                 *)
(***************************************************************************)
Min(a, b) == IF a <= b THEN a ELSE b

\* Math.ceil(a / b) for a >= 0, b > 0
CeilDiv(a, b) == (a + b - 1) \div b

LowerChar(c) ==
    CASE c = "A" -> "a"
      [] c = "B" -> "b"
      [] c = "X" -> "x"
      [] OTHER -> c

\* String.prototype.toLowerCase on a string held as a sequence of characters
toLowerCase(s) == [i \in 1..Len(s) |-> LowerChar(s[i])]

\* Map.prototype.delete / set / has on a store held as a function on its keys
MapDelete(m, k) == [x \in (DOMAIN m) \ {k} |-> m[x]]
MapSet(m, k, v) == [x \in (DOMAIN m) \cup {k} |-> IF x = k THEN v ELSE m[x]]
MapHas(m, k) == k \in DOMAIN m

\* variant: the addresses compared as they are, without toLowerCase()
SameEmailExact(a, b) == a = b

\* u => u.email.toLowerCase() === email.toLowerCase()
SameEmail(a, b) == toLowerCase(a) = toLowerCase(b)

\* variant: find() with u.email === email
FindUserExact(users, email) ==
    {i \in 1..Len(users) : users[i].email = email}

\* the indexes users.find(...) looks through; find returns the first match
FindUser(users, email) ==
    {i \in 1..Len(users) : SameEmail(users[i].email, email)}

FirstUser(users, email) ==
    LET I == FindUser(users, email)
    IN  users[CHOOSE i \in I : \A j \in I : i <= j]

\* req.body of the POST routes, req.headers of /me
Request(email, otp, name, token) ==
    [email |-> email, otp |-> otp, name |-> name, token |-> token]

NoRequest == Request(NoEmail, NoCode, NoName, NoToken)

\* res.status(status).json({ok, error | message, token, user})
Response(op, req, status, error) ==
    [op |-> op, req |-> req, status |-> status, error |-> error,
     token |-> NoToken, user |-> <<>>]

SendOtpReply(email, status, error) ==
    Response("send-otp", Request(email, NoCode, NoName, NoToken), status, error)

VerifyOtpReply(email, otp, status, error) ==
    Response("verify-otp", Request(email, otp, NoName, NoToken), status, error)

RegisterReply(name, email, token, status, error) ==
    Response("register", Request(email, NoCode, name, token), status, error)

MeReply(token, status, error) ==
    Response("me", Request(NoEmail, NoCode, NoName, token), status, error)

IdleProc ==
    [pc |-> "idle", op |-> "none", name |-> NoName, email |-> NoEmail,
     token |-> NoToken, users |-> <<>>, ok |-> FALSE]

InitWith(load) ==
    /\ now \in load.starts
    /\ nextSweep = SWEEP_INTERVAL_MS
    /\ otpStore = <<>>
    /\ tokenStore = <<>>
    /\ usersFile = [exists |-> FALSE, data |-> <<>>]
    /\ procs = [p \in 1..load.procs |-> IdleProc]
    /\ resp = Response("none", NoRequest, 0, "")
    /\ quota = load
    /\ used = [sends |-> 0, tokens |-> 0, reqs |-> 0]
    /\ sentAt = <<>>
    /\ consumed = <<>>

Init == InitWith(DirectoryLoad)

(***************************************************************************)
(* Clock and janitor                                                       *)
(***************************************************************************)
\* the accepted sends that are less than OTP_EXPIRES_SECONDS - 250 s old at t
RecentSends(sent, t) ==
    [e \in {x \in DOMAIN sent :
              t < sent[x] + (OTP_EXPIRES_SECONDS - RESEND_MARGIN_SECONDS) * 1000}
       |-> sent[e]]

\* Date.now() advances. A due interval timer fires before time moves on. The
\* workload says during which of its sends time passes: before the first one
\* (the server idles, then serves a burst) or after it (a challenge ages).
\* an entry is stored that a sweep has not had a whole period to remove
SweepPending ==
    \/ \E e \in DOMAIN otpStore : otpStore[e].expiresAt + SWEEP_INTERVAL_MS > now
    \/ \E t \in DOMAIN tokenStore :
          tokenStore[t].expiresAt + SWEEP_INTERVAL_MS > now

Tick(d) ==
    /\ now < nextSweep
    /\ \/ nextSweep <= quota.sweeps * SWEEP_INTERVAL_MS
       \/ quota.drain /\ SweepPending
    /\ used.sends \in quota.ticking
    /\ now' = Min(now + d, nextSweep)
    /\ sentAt' = RecentSends(sentAt, now')
    /\ UNCHANGED <<nextSweep, otpStore, tokenStore, usersFile, procs, resp,
                   quota, used, consumed>>

\* variant: an entry is swept only after its expiry time, not at it
SweepExpiredLate(store, t) ==
    [k \in {x \in DOMAIN store : ~(store[x].expiresAt < t)} |-> store[k]]

SweepExpired(store, t) ==
    [k \in {x \in DOMAIN store : ~(store[x].expiresAt <= t)} |-> store[k]]

\* variant: the sweep forgets the token store
JanitorOtpOnly ==
    /\ now >= nextSweep
    /\ otpStore' = SweepExpired(otpStore, now)
    /\ nextSweep' = nextSweep + SWEEP_INTERVAL_MS
    /\ UNCHANGED <<now, tokenStore, usersFile, procs, resp, quota, used,
                   sentAt, consumed>>

Janitor ==
    /\ now >= nextSweep
    /\ otpStore' = SweepExpired(otpStore, now)
    /\ tokenStore' = SweepExpired(tokenStore, now)
    /\ nextSweep' = nextSweep + SWEEP_INTERVAL_MS
    /\ UNCHANGED <<now, usersFile, procs, resp, quota, used, sentAt, consumed>>

(***************************************************************************)
(* POST /send-otp                                                          *)
(* transporter.sendMail is called once per accepted request: used.sends    *)
(* counts the calls. Nothing but the response follows the await.           *)
(***************************************************************************)
\* variant: secsLeft compared with the whole lifetime, the 250 s left out
ResendTooSoonNoMargin(existing, t) ==
    /\ existing.expiresAt > t
    /\ CeilDiv(existing.expiresAt - t, 1000) > OTP_EXPIRES_SECONDS

ResendTooSoon(existing, t) ==
    /\ existing.expiresAt > t
    /\ CeilDiv(existing.expiresAt - t, 1000)
         > OTP_EXPIRES_SECONDS - RESEND_MARGIN_SECONDS

NewChallenge(otp, t) ==
    [otp |-> otp, expiresAt |-> t + OTP_EXPIRES_SECONDS * 1000, attempts |-> 0]

\* variant: the challenge is withdrawn when the mail could not be sent
SendOtpWithdrawn(email, otp, mailOk) ==
    /\ UNCHANGED <<now, nextSweep, tokenStore, usersFile, procs, quota, consumed>>
    /\ IF email = NoEmail
       THEN /\ resp' = SendOtpReply(email, 400, "Email required")
            /\ UNCHANGED <<otpStore, used, sentAt>>
       ELSE IF MapHas(otpStore, email) /\ ResendTooSoon(otpStore[email], now)
       THEN /\ resp' = SendOtpReply(email, 429, "Try again later")
            /\ UNCHANGED <<otpStore, used, sentAt>>
       ELSE /\ used.sends < quota.sends
            /\ otpStore' = IF mailOk
                           THEN MapSet(otpStore, email, NewChallenge(otp, now))
                           ELSE MapDelete(otpStore, email)
            /\ used' = [used EXCEPT !.sends = @ + 1]
            /\ sentAt' = MapSet(sentAt, email, now)
            /\ resp' = IF mailOk
                       THEN SendOtpReply(email, 200, "OTP sent")
                       ELSE SendOtpReply(email, 500, "Failed to send email")

SendOtp(email, otp, mailOk) ==
    /\ UNCHANGED <<now, nextSweep, tokenStore, usersFile, procs, quota, consumed>>
    /\ IF email = NoEmail
       THEN /\ resp' = SendOtpReply(email, 400, "Email required")
            /\ UNCHANGED <<otpStore, used, sentAt>>
       ELSE IF MapHas(otpStore, email) /\ ResendTooSoon(otpStore[email], now)
       THEN /\ resp' = SendOtpReply(email, 429, "Try again later")
            /\ UNCHANGED <<otpStore, used, sentAt>>
       ELSE /\ used.sends < quota.sends
            /\ otpStore' = MapSet(otpStore, email, NewChallenge(otp, now))
            /\ used' = [used EXCEPT !.sends = @ + 1]
            /\ sentAt' = MapSet(sentAt, email, now)
            /\ resp' = IF mailOk
                       THEN SendOtpReply(email, 200, "OTP sent")
                       ELSE SendOtpReply(email, 500, "Failed to send email")

(***************************************************************************)
(* POST /verify-otp                                                        *)
(***************************************************************************)
\* variant: the handler without its expiry test
ExpiredUnchecked(data, t) == FALSE

Expired(data, t) == t > data.expiresAt

\* variant: >= in place of >
TooManyAttemptsAtLimit(attempts) == attempts >= MAX_ATTEMPTS

TooManyAttempts(attempts) == attempts > MAX_ATTEMPTS

NewToken(email, t) ==
    [email |-> email, expiresAt |-> t + TOKEN_EXPIRES_SECONDS * 1000]

\* variant: the challenge left in place after a successful verification
ConsumeChallengeForgotten(store, email) == store

\* the store after a successful verification
ConsumeChallenge(store, email) == MapDelete(store, email)

\* variant: the incremented counter is not written back to the challenge
CountAttemptLost(data) == data

\* variant: the attempt is counted both at the limit check and at the mismatch
CountAttemptTwice(data) == [data EXCEPT !.attempts = data.attempts + 2]

\* data.attempts = (data.attempts || 0) + 1
CountAttempt(data) == [data EXCEPT !.attempts = data.attempts + 1]

VerifyOtp(email, otp) ==
    /\ UNCHANGED <<now, nextSweep, usersFile, procs, quota, sentAt, consumed>>
    /\ IF email = NoEmail \/ otp = NoCode
       THEN /\ resp' = VerifyOtpReply(email, otp, 400, "Email and OTP required")
            /\ UNCHANGED <<otpStore, tokenStore, used>>
       ELSE IF ~MapHas(otpStore, email)
       THEN /\ resp' = VerifyOtpReply(email, otp, 400,
                                       "No OTP requested or already used")
            /\ UNCHANGED <<otpStore, tokenStore, used>>
       ELSE LET data == otpStore[email]
                counted == CountAttempt(data)
            IN  IF Expired(data, now)
                THEN /\ otpStore' = MapDelete(otpStore, email)
                     /\ resp' = VerifyOtpReply(email, otp, 400, "OTP expired")
                     /\ UNCHANGED <<tokenStore, used>>
                ELSE IF TooManyAttempts(counted.attempts)
                THEN /\ otpStore' = MapDelete(otpStore, email)
                     /\ resp' = VerifyOtpReply(email, otp, 429, "Too many attempts")
                     /\ UNCHANGED <<tokenStore, used>>
                ELSE IF otp # data.otp
                THEN /\ otpStore' = MapSet(otpStore, email, counted)
                     /\ resp' = VerifyOtpReply(email, otp, 400, "Invalid OTP")
                     /\ UNCHANGED <<tokenStore, used>>
                ELSE /\ used.tokens < quota.tokens
                     /\ LET token == used.tokens + 1   \* generateToken(): fresh
                        IN  /\ tokenStore' = MapSet(tokenStore, token,
                                                    NewToken(email, now))
                            /\ resp' = [VerifyOtpReply(email, otp, 200, "Verified")
                                        EXCEPT !.token = token]
                     /\ used' = [used EXCEPT !.tokens = @ + 1]
                     /\ otpStore' = ConsumeChallenge(otpStore, email)

(***************************************************************************)
(* readUsers: await fs.pathExists, then await fs.writeJson(USERS_FILE, [])  *)
(* or await fs.readJson; any error is caught and yields []                 *)
(***************************************************************************)
SetProc(p, rec) == [procs EXCEPT ![p] = rec]

\* the lowest idle handler slot takes the next request
FreeProc(p) ==
    /\ procs[p].pc = "idle"
    /\ \A q \in DOMAIN procs : q < p => procs[q].pc # "idle"

\* variant: the address normalised before it is stored
NewUserLowered(id, name, email, t) ==
    [id |-> id, name |-> name, email |-> toLowerCase(email), createdAt |-> t]

NewUser(id, name, email, t) ==
    [id |-> id, name |-> name, email |-> email, createdAt |-> t]

\* the synchronous code that follows `await readUsers()` in /register
RegisterAfterRead(p, users, id) ==
    LET me == procs[p]
    IN  IF FindUser(users, me.email) # {}
        THEN /\ resp' = RegisterReply(me.name, me.email, me.token, 400,
                                   "User already exists")
             /\ procs' = SetProc(p, IdleProc)
        ELSE /\ procs' = SetProc(p, [me EXCEPT
                    !.pc = "writeJson",
                    !.users = Append(users, NewUser(id, me.name, me.email, now))])
             /\ UNCHANGED resp

\* the synchronous code that follows `await readUsers()` in /me
MeAfterRead(p, users) ==
    LET me == procs[p]
    IN  /\ procs' = SetProc(p, IdleProc)
        /\ resp' = IF FindUser(users, me.email) = {}
                   THEN MeReply(me.token, 404, "User not found")
                   ELSE [MeReply(me.token, 200, "")
                         EXCEPT !.user = <<FirstUser(users, me.email)>>]

AfterRead(p, users, id) ==
    IF procs[p].op = "register"
    THEN RegisterAfterRead(p, users, id)
    ELSE MeAfterRead(p, users)

\* fs.pathExists resolves
PathExists(p) ==
    /\ procs[p].pc = "pathExists"
    /\ procs' = SetProc(p, [procs[p] EXCEPT !.pc = IF usersFile.exists
                                                   THEN "readJson"
                                                   ELSE "create"])
    /\ UNCHANGED <<now, nextSweep, otpStore, tokenStore, usersFile, resp,
                   quota, used, sentAt, consumed>>

\* fs.writeJson(USERS_FILE, []) resolves or throws; readUsers returns []
CreateFile(p, ioOk, id) ==
    /\ procs[p].pc = "create"
    /\ usersFile' = IF ioOk THEN [exists |-> TRUE, data |-> <<>>] ELSE usersFile
    /\ AfterRead(p, <<>>, id)
    /\ UNCHANGED <<now, nextSweep, otpStore, tokenStore, quota, used,
                   sentAt, consumed>>

\* what readUsers returns once fs.readJson has resolved or thrown
ReadResult(ioOk) == IF ioOk THEN usersFile.data ELSE <<>>

ReadJson(p, ioOk, id) ==
    /\ procs[p].pc = "readJson"
    /\ AfterRead(p, ReadResult(ioOk), id)
    /\ UNCHANGED <<now, nextSweep, otpStore, tokenStore, usersFile,
                   quota, used, sentAt, consumed>>

(***************************************************************************)
(* POST /register                                                          *)
(***************************************************************************)
\* variant: the token is looked up, its email is not compared with the form's
TokenValidForAnyEmail(token, email) == MapHas(tokenStore, token)

TokenValidFor(token, email) ==
    /\ MapHas(tokenStore, token)
    /\ tokenStore[token].email = email

RegisterBegin(p, name, email, token) ==
    /\ FreeProc(p)
    /\ used.reqs < quota.reqs
    /\ used' = [used EXCEPT !.reqs = @ + 1]
    /\ UNCHANGED <<now, nextSweep, otpStore, tokenStore, usersFile, quota,
                   sentAt, consumed>>
    /\ IF name = NoName \/ email = NoEmail \/ token = NoToken
       THEN /\ resp' = RegisterReply(name, email, token, 400,
                                  "Name, email and token required")
            /\ UNCHANGED procs
       ELSE IF ~TokenValidFor(token, email)
       THEN /\ resp' = RegisterReply(name, email, token, 400,
                                  "Invalid or expired token")
            /\ UNCHANGED procs
       ELSE /\ procs' = SetProc(p, [pc |-> "pathExists", op |-> "register",
                                    name |-> name, email |-> email,
                                    token |-> token, users |-> <<>>, ok |-> FALSE])
            /\ UNCHANGED resp

\* variant: a write that throws after it has replaced the file
WriteJsonTorn(p, ioOk) ==
    /\ procs[p].pc = "writeJson"
    /\ usersFile' = [exists |-> TRUE, data |-> procs[p].users]
    /\ procs' = SetProc(p, [procs[p] EXCEPT !.pc = "wrote", !.ok = ioOk])
    /\ UNCHANGED <<now, nextSweep, otpStore, tokenStore, resp, quota, used,
                   sentAt, consumed>>

\* fs.writeJson(USERS_FILE, users) of writeUsers resolves or throws
WriteJson(p, ioOk) ==
    /\ procs[p].pc = "writeJson"
    /\ usersFile' = IF ioOk THEN [exists |-> TRUE, data |-> procs[p].users]
                    ELSE usersFile
    /\ procs' = SetProc(p, [procs[p] EXCEPT !.pc = "wrote", !.ok = ioOk])
    /\ UNCHANGED <<now, nextSweep, otpStore, tokenStore, resp, quota, used,
                   sentAt, consumed>>

\* variant: the token left in place after a registration
ReleaseTokenForgotten(store, token) == store

\* the token store after a registration has been saved
ReleaseToken(store, token) == MapDelete(store, token)

\* the synchronous code that follows `await writeUsers(users)`
RegisterFinish(p) ==
    LET me == procs[p]
    IN  /\ me.pc = "wrote"
        /\ procs' = SetProc(p, IdleProc)
        /\ IF ~me.ok
           THEN /\ resp' = RegisterReply(me.name, me.email, me.token, 500,
                                          "Failed to save user")
                /\ UNCHANGED <<tokenStore, consumed>>
           ELSE /\ tokenStore' = ReleaseToken(tokenStore, me.token)
                /\ consumed' = MapSet(consumed, me.token, me.email)
                /\ resp' = [RegisterReply(me.name, me.email, me.token, 200,
                                          "Registered")
                            EXCEPT !.user = <<me.users[Len(me.users)]>>]
        /\ UNCHANGED <<now, nextSweep, otpStore, usersFile, quota, used, sentAt>>

(***************************************************************************)
(* GET /me                                                                 *)
(***************************************************************************)
TokenKnown(token) == MapHas(tokenStore, token)

MeBegin(p, token) ==
    /\ FreeProc(p)
    /\ used.reqs < quota.reqs
    /\ used' = [used EXCEPT !.reqs = @ + 1]
    /\ UNCHANGED <<now, nextSweep, otpStore, tokenStore, usersFile, quota,
                   sentAt, consumed>>
    /\ IF token = NoToken
       THEN /\ resp' = MeReply(token, 401, "Token required")
            /\ UNCHANGED procs
       ELSE IF ~TokenKnown(token)
       THEN /\ resp' = MeReply(token, 401, "Invalid or expired token")
            /\ UNCHANGED procs
       ELSE /\ procs' = SetProc(p, [pc |-> "pathExists", op |-> "me",
                                    name |-> NoName,
                                    email |-> tokenStore[token].email,
                                    token |-> token, users |-> <<>>, ok |-> FALSE])
            /\ UNCHANGED resp

(***************************************************************************)
(* Specifications                                                          *)
(***************************************************************************)
Next ==
    \/ \E d \in TickSteps : Tick(d)
    \/ Janitor
    \/ \E email \in quota.emails \cup {NoEmail}, otp \in quota.otps,
          mailOk \in BOOLEAN : SendOtp(email, otp, mailOk)
    \/ \E email \in quota.emails \cup {NoEmail},
          otp \in quota.guesses \cup {NoCode} : VerifyOtp(email, otp)
    \/ \E p \in DOMAIN procs, name \in Names \cup {NoName},
          email \in quota.emails \cup {NoEmail}, token \in 0..quota.tokens :
          RegisterBegin(p, name, email, token)
    \/ \E p \in DOMAIN procs, token \in 0..quota.tokens : MeBegin(p, token)
    \/ \E p \in DOMAIN procs : PathExists(p)
    \/ \E p \in DOMAIN procs, ioOk \in BOOLEAN, id \in UserIds :
          CreateFile(p, ioOk, id)
    \/ \E p \in DOMAIN procs, ioOk \in BOOLEAN, id \in UserIds :
          ReadJson(p, ioOk, id)
    \/ \E p \in DOMAIN procs, ioOk \in BOOLEAN : WriteJson(p, ioOk)
    \/ \E p \in DOMAIN procs : RegisterFinish(p)

\* the directory workload
Spec == Init /\ [][Next]_vars

\* the challenge workload
SpecOtp == InitWith(ChallengeLoad) /\ [][Next]_vars

\* the resend workload
SpecResend == InitWith(ResendLoad) /\ [][Next]_vars

\* the token-expiry workload
SpecExpiry == InitWith(ExpiryLoad) /\ [][Next]_vars

\* the eviction workload; the clock advances and the setInterval timer fires
Fairness == WF_vars(\E d \in TickSteps : Tick(d)) /\ WF_vars(Janitor)

SpecLive == InitWith(LiveLoad) /\ [][Next]_vars /\ Fairness

\* the guessing workload
SpecGuess == InitWith(GuessLoad) /\ [][Next]_vars

(***************************************************************************)
(* Properties of /verify-otp and /send-otp                                 *)
(***************************************************************************)
\* C1: a /verify-otp for an email whose stored challenge has expired
\* (now > expiresAt) answers 400 "OTP expired", mints no token and deletes
\* the challenge, whatever code it carries (the correct one included) and
\* whatever the attempts counter is.
C1_ExpiredNeverAccepted ==
    [][\A e \in quota.emails, c \in quota.guesses :
         (/\ MapHas(otpStore, e)
          /\ now > otpStore[e].expiresAt
          /\ VerifyOtp(e, c))
         => /\ resp' = VerifyOtpReply(e, c, 400, "OTP expired")
            /\ tokenStore' = tokenStore
            /\ used'.tokens = used.tokens
            /\ ~MapHas(otpStore', e)]_vars

\* C1: the correct code was presented after the challenge's expiry and before
\* any sweep removed it, and was refused
C1_Witness ==
    /\ resp.op = "verify-otp"
    /\ resp.error = "OTP expired"
    /\ resp.req.otp \in quota.otps
    /\ ~MapHas(otpStore, resp.req.email)
    /\ DOMAIN tokenStore = {}
    /\ used.tokens = 0

\* C2: on an unexpired challenge with k < 6 prior attempts a wrong code answers
\* 400 "Invalid OTP" and makes the counter k + 1; with 6 prior attempts any
\* code, the correct one included, answers 429 "Too many attempts", deletes
\* the challenge and mints no token; without a challenge the answer is
\* 400 "No OTP requested or already used". A challenge starts with 0 attempts
\* and never holds more than 6, so calls 1..6 with wrong codes are "Invalid
\* OTP" and the 7th is the rate-limit error; a token is minted only by a call
\* that found fewer than 6 prior attempts.
C2_AttemptLimit ==
    /\ [](\A e \in DOMAIN otpStore : otpStore[e].attempts \in 0..6)
    /\ [][\A e \in quota.emails :
            /\ \A o \in quota.otps, m \in BOOLEAN :
                 (SendOtp(e, o, m) /\ used'.sends # used.sends)
                 => otpStore'[e].attempts = 0
            /\ \A c \in quota.guesses :
                 /\ (~MapHas(otpStore, e) /\ VerifyOtp(e, c))
                    => /\ resp' = VerifyOtpReply(e, c, 400,
                                     "No OTP requested or already used")
                       /\ tokenStore' = tokenStore
                 /\ (/\ MapHas(otpStore, e)
                     /\ now <= otpStore[e].expiresAt
                     /\ VerifyOtp(e, c))
                    => LET data == otpStore[e]
                       IN  /\ (data.attempts < 6 /\ c # data.otp)
                              => /\ resp' = VerifyOtpReply(e, c, 400,
                                                           "Invalid OTP")
                                 /\ MapHas(otpStore', e)
                                 /\ otpStore'[e].attempts = data.attempts + 1
                                 /\ tokenStore' = tokenStore
                           /\ data.attempts = 6
                              => /\ resp' = VerifyOtpReply(e, c, 429,
                                                           "Too many attempts")
                                 /\ ~MapHas(otpStore', e)
                                 /\ tokenStore' = tokenStore
                           /\ tokenStore' # tokenStore
                              => data.attempts < 6 /\ c = data.otp]_vars

\* C2: the 7th call carried the correct code and was refused with the
\* rate-limit error, which deleted the challenge
C2_Witness ==
    /\ resp.op = "verify-otp"
    /\ resp.status = 429
    /\ resp.error = "Too many attempts"
    /\ resp.req.otp \in quota.otps
    /\ ~MapHas(otpStore, resp.req.email)
    /\ DOMAIN tokenStore = {}

\* C3, as stated: a /send-otp for an email arriving less than
\* OTP_EXPIRES_SECONDS - 250 s after an accepted /send-otp for it is answered
\* 429 "Try again later", stores no new code and sends no mail, whatever
\* requests came in between.
C3_ResendRejectedInAnySequence ==
    [][\A e \in quota.emails, o \in quota.otps, m \in BOOLEAN :
         (/\ SendOtp(e, o, m)
          /\ MapHas(sentAt, e)
          /\ now < sentAt[e] + (OTP_EXPIRES_SECONDS - 250) * 1000)
         => /\ resp' = SendOtpReply(e, 429, "Try again later")
            /\ otpStore' = otpStore
            /\ used'.sends = used.sends]_vars

\* C3, amended: a /send-otp for an email arriving less than
\* OTP_EXPIRES_SECONDS - 250 s after an accepted /send-otp for it, while the
\* challenge that send stored is still in the OTP store (no /verify-otp has
\* deleted it), is answered 429 "Try again later", stores no new code and
\* sends no mail.
C3_ResendRateLimit ==
    [][\A e \in quota.emails, o \in quota.otps, m \in BOOLEAN :
         (/\ SendOtp(e, o, m)
          /\ MapHas(sentAt, e)
          /\ now < sentAt[e] + (OTP_EXPIRES_SECONDS - 250) * 1000
          /\ MapHas(otpStore, e))
         => /\ resp' = SendOtpReply(e, 429, "Try again later")
            /\ otpStore' = otpStore
            /\ used'.sends = used.sends]_vars

\* C3: a resend 10 s after the accepted send was refused
C3_Witness ==
    /\ resp.op = "send-otp"
    /\ resp.status = 429
    /\ MapHas(sentAt, resp.req.email)
    /\ MapHas(otpStore, resp.req.email)
    /\ now > sentAt[resp.req.email]
    /\ used.sends = 1

(***************************************************************************)
(* Properties of /register and /me                                         *)
(***************************************************************************)
\* C4: once a /register presenting token T has answered 200, every later
\* /register presenting T, with any name and email, is refused at once and
\* adds no user: 400 "Invalid or expired token" when name and email are
\* given, 400 "Name, email and token required" when one of them is empty.
C4_TokenSingleUse ==
    [][\A p \in DOMAIN procs, n \in Names \cup {NoName},
          e \in quota.emails \cup {NoEmail}, t \in 1..quota.tokens :
         (MapHas(consumed, t) /\ RegisterBegin(p, n, e, t))
         => /\ resp'.op = "register"
            /\ resp'.status = 400
            /\ (n # NoName /\ e # NoEmail)
               => resp' = RegisterReply(n, e, t, 400,
                                        "Invalid or expired token")
            /\ procs' = procs
            /\ usersFile' = usersFile]_vars

\* C4: a token was presented again, with the email it was minted for, after
\* the registration it paid for, and was refused
C4_Witness ==
    /\ resp.op = "register"
    /\ resp.error = "Invalid or expired token"
    /\ MapHas(consumed, resp.req.token)
    /\ consumed[resp.req.token] = resp.req.email
    /\ Len(usersFile.data) = 1

\* C5, as stated: a /register whose email equals, ignoring case, the email of
\* a user the directory holds when the handler loads it is answered
\* 400 "User already exists"; the directory and the token store stay as they
\* are and the handler ends there.
C5_DuplicateRejected ==
    [][\A p \in DOMAIN procs, ioOk \in BOOLEAN, id \in UserIds :
         (/\ procs[p].op = "register"
          /\ \E i \in 1..Len(usersFile.data) :
                toLowerCase(usersFile.data[i].email)
                  = toLowerCase(procs[p].email)
          /\ ReadJson(p, ioOk, id))
         => /\ resp' = RegisterReply(procs[p].name, procs[p].email,
                                     procs[p].token, 400, "User already exists")
            /\ procs'[p] = IdleProc
            /\ usersFile' = usersFile
            /\ tokenStore' = tokenStore]_vars

\* C6: in every state of users.json, whatever the interleaving of /register
\* requests and whatever I/O failed, no two records have emails that are
\* equal ignoring case.
C6_EmailsUnique ==
    \A i, j \in 1..Len(usersFile.data) :
        i # j => toLowerCase(usersFile.data[i].email)
                   # toLowerCase(usersFile.data[j].email)

\* C6: two registrations of addresses that differ only in case were in flight
\* together and both saved their document
C6_Witness ==
    \E p, q \in DOMAIN procs :
        /\ p # q
        /\ procs[p].pc = "wrote" /\ procs[p].ok
        /\ procs[q].pc = "wrote" /\ procs[q].ok
        /\ procs[p].email # procs[q].email
        /\ toLowerCase(procs[p].email) = toLowerCase(procs[q].email)
        /\ Len(usersFile.data) = 1

\* C7, as stated: /register and /me presented with a stored token whose
\* expiresAt has passed (now > expiresAt) refuse it with "Invalid or expired
\* token", whether or not the janitor has swept since.
C7_ExpiredTokenRejected ==
    [][\A p \in DOMAIN procs, t \in 1..quota.tokens :
         /\ \A n \in Names, e \in quota.emails :
              (/\ MapHas(tokenStore, t)
               /\ now > tokenStore[t].expiresAt
               /\ RegisterBegin(p, n, e, t))
              => /\ resp' = RegisterReply(n, e, t, 400,
                                          "Invalid or expired token")
                 /\ procs' = procs
         /\ (/\ MapHas(tokenStore, t)
             /\ now > tokenStore[t].expiresAt
             /\ MeBegin(p, t))
            => /\ resp' = MeReply(t, 401, "Invalid or expired token")
               /\ procs' = procs]_vars

\* C8: a /me without a token, or with a token that is not in the token store,
\* is answered 401 at once; a /me with a stored token goes on to load the
\* directory for the token's email; when the directory it loads holds no user
\* with that email ignoring case the answer is 404, otherwise it is 200 with
\* such a user; and a 200 is sent only by a handler that was given a stored
\* token, with a user of the directory whose email matches the token's.
C8_MeOutcomes ==
    [][/\ \A p \in DOMAIN procs, t \in 0..quota.tokens :
            MeBegin(p, t)
            => IF t = NoToken \/ ~MapHas(tokenStore, t)
               THEN /\ resp'.op = "me"
                    /\ resp'.req.token = t
                    /\ resp'.status = 401
                    /\ procs' = procs
               ELSE /\ resp' = resp
                    /\ procs'[p].op = "me"
                    /\ procs'[p].token = t
                    /\ procs'[p].email = tokenStore[t].email
       /\ \A p \in DOMAIN procs, ioOk \in BOOLEAN, id \in UserIds :
            /\ (procs[p].op = "me" /\ CreateFile(p, ioOk, id))
               => resp' = MeReply(procs[p].token, 404, "User not found")
            /\ (procs[p].op = "me" /\ ReadJson(p, TRUE, id))
               => LET M == {i \in 1..Len(usersFile.data) :
                              toLowerCase(usersFile.data[i].email)
                                = toLowerCase(procs[p].email)}
                  IN  IF M = {}
                      THEN resp' = MeReply(procs[p].token, 404,
                                           "User not found")
                      ELSE /\ resp'.op = "me"
                           /\ resp'.req.token = procs[p].token
                           /\ resp'.status = 200
                           /\ \E i \in M : resp'.user = <<usersFile.data[i]>>
       /\ (resp' # resp /\ resp'.op = "me" /\ resp'.status = 200)
          => \E p \in DOMAIN procs, i \in 1..Len(usersFile.data) :
                /\ procs[p].op = "me"
                /\ procs[p].pc = "readJson"
                /\ procs'[p] = IdleProc
                /\ procs[p].token = resp'.req.token
                /\ resp'.user = <<usersFile.data[i]>>
                /\ toLowerCase(usersFile.data[i].email)
                     = toLowerCase(procs[p].email)]_vars

\* C8: a stored token minted for an address that differs in case from the
\* registered one fetched that user's profile
C8_Witness ==
    /\ resp.op = "me"
    /\ resp.status = 200
    /\ MapHas(tokenStore, resp.req.token)
    /\ resp.user[1].email # tokenStore[resp.req.token].email
    /\ toLowerCase(resp.user[1].email)
         = toLowerCase(tokenStore[resp.req.token].email)
    /\ resp.user[1] = usersFile.data[1]

(***************************************************************************)
(* The whole flow                                                          *)
(***************************************************************************)
\* C9: step by step along the happy path for an email E. An accepted and
\* delivered /send-otp stores a fresh challenge for E; a /verify-otp with the
\* stored code before expiry and with fewer than 6 prior attempts answers 200
\* with a new token T bound to E; a /register with T and E goes on to load
\* the directory; when what it loads holds no user for E it prepares that
\* directory plus one user with email E; a successful write puts exactly the
\* prepared document in users.json, which is the previous directory plus that
\* one user when nobody wrote in between; the handler then answers
\* 200 "Registered" with that user and removes T from the token store, so
\* that a /register presenting T afterwards is refused.
C9_HappyPath ==
    [][/\ \A e \in quota.emails :
            /\ \A o \in quota.otps, m \in BOOLEAN :
                 (resp'.error = "OTP sent" /\ SendOtp(e, o, m))
                 => otpStore'[e]
                      = [otp |-> o,
                         expiresAt |-> now + OTP_EXPIRES_SECONDS * 1000,
                         attempts |-> 0]
            /\ \A c \in quota.guesses :
                 (/\ MapHas(otpStore, e)
                  /\ now <= otpStore[e].expiresAt
                  /\ otpStore[e].attempts < 6
                  /\ c = otpStore[e].otp
                  /\ VerifyOtp(e, c))
                 => /\ resp'.status = 200
                    /\ resp'.token \notin DOMAIN tokenStore
                    /\ tokenStore'
                         = MapSet(tokenStore, resp'.token,
                             [email |-> e,
                              expiresAt |->
                                  now + TOKEN_EXPIRES_SECONDS * 1000])
       /\ \A p \in DOMAIN procs, e \in quota.emails, n \in Names,
             t \in 1..quota.tokens :
            /\ (/\ MapHas(tokenStore, t)
                /\ tokenStore[t].email = e
                /\ RegisterBegin(p, n, e, t))
               => /\ procs'[p].pc = "pathExists"
                  /\ procs'[p].op = "register"
                  /\ procs'[p].name = n
                  /\ procs'[p].email = e
                  /\ procs'[p].token = t
            /\ (~MapHas(tokenStore, t) /\ RegisterBegin(p, n, e, t))
               => /\ resp' = RegisterReply(n, e, t, 400,
                                           "Invalid or expired token")
                  /\ procs' = procs
       /\ \A p \in DOMAIN procs :
            procs[p].op = "register"
            => LET e == procs[p].email
               IN  /\ \A ioOk \in BOOLEAN, id \in UserIds :
                        /\ CreateFile(p, ioOk, id)
                           => /\ procs'[p].pc = "writeJson"
                              /\ procs'[p].users
                                   = <<[id |-> id, name |-> procs[p].name,
                                        email |-> e, createdAt |-> now]>>
                        /\ (/\ \A i \in 1..Len(usersFile.data) :
                                  toLowerCase(usersFile.data[i].email)
                                    # toLowerCase(e)
                            /\ ReadJson(p, TRUE, id))
                           => /\ procs'[p].pc = "writeJson"
                              /\ procs'[p].users
                                   = Append(usersFile.data,
                                        [id |-> id, name |-> procs[p].name,
                                         email |-> e, createdAt |-> now])
                   /\ WriteJson(p, TRUE)
                      => LET doc == procs[p].users
                         IN  /\ usersFile' = [exists |-> TRUE, data |-> doc]
                             /\ doc[Len(doc)].email = e
                             /\ SubSeq(doc, 1, Len(doc) - 1) = usersFile.data
                                => usersFile'.data
                                     = Append(usersFile.data, doc[Len(doc)])
                   /\ (procs[p].ok /\ RegisterFinish(p))
                      => /\ resp'.status = 200
                         /\ resp'.error = "Registered"
                         /\ resp'.req.token = procs[p].token
                         /\ resp'.user
                              = <<procs[p].users[Len(procs[p].users)]>>
                         /\ resp'.user[1].email = e
                         /\ ~MapHas(tokenStore', procs[p].token)
                         /\ usersFile' = usersFile]_vars

\* C9: a registration answered 200 for the email it was asked for, its user
\* is the one record added to a directory that held another user, and its
\* token is gone
C9_Witness ==
    /\ resp.op = "register"
    /\ resp.status = 200
    /\ resp.user[1].email = resp.req.email
    /\ Len(usersFile.data) = 2
    /\ usersFile.data[2] = resp.user[1]
    /\ ~MapHas(tokenStore, resp.req.token)
    /\ MapHas(consumed, resp.req.token)

\* C10, as stated: a /verify-otp whose code matches a live (stored, unexpired)
\* challenge deletes the challenge and stores exactly one new token bound to
\* the email, expiring TOKEN_EXPIRES_SECONDS from now.
C10_MatchOnLiveChallengeMints ==
    [][\A e \in quota.emails, c \in quota.guesses :
         (/\ VerifyOtp(e, c)
          /\ MapHas(otpStore, e)
          /\ now <= otpStore[e].expiresAt
          /\ c = otpStore[e].otp)
         => /\ ~MapHas(otpStore', e)
            /\ \E t \in (DOMAIN tokenStore') \ DOMAIN tokenStore :
                  tokenStore'
                    = MapSet(tokenStore, t,
                             [email |-> e,
                              expiresAt |-> now + TOKEN_EXPIRES_SECONDS * 1000])
           ]_vars

\* C10, amended: a /verify-otp whose code matches a live challenge that has
\* had fewer than 6 prior attempts deletes the challenge and stores exactly
\* one new token bound to the email, expiring TOKEN_EXPIRES_SECONDS from now,
\* which the response carries; a /verify-otp for an email without a challenge
\* answers 400 "No OTP requested or already used" and mints nothing; and every
\* step that adds a token removes a challenge, so a challenge mints at most
\* one token.
C10_OtpSingleUse ==
    [][/\ \A e \in quota.emails, c \in quota.guesses :
            /\ (/\ VerifyOtp(e, c)
                /\ MapHas(otpStore, e)
                /\ now <= otpStore[e].expiresAt
                /\ c = otpStore[e].otp
                /\ otpStore[e].attempts < 6)
               => /\ ~MapHas(otpStore', e)
                  /\ \E t \in (DOMAIN tokenStore') \ DOMAIN tokenStore :
                        /\ tokenStore'
                             = MapSet(tokenStore, t,
                                 [email |-> e,
                                  expiresAt |->
                                      now + TOKEN_EXPIRES_SECONDS * 1000])
                        /\ resp'.token = t
            /\ (VerifyOtp(e, c) /\ ~MapHas(otpStore, e))
               => /\ resp' = VerifyOtpReply(e, c, 400,
                                "No OTP requested or already used")
                  /\ tokenStore' = tokenStore
                  /\ otpStore' = otpStore
       /\ (DOMAIN tokenStore') \ DOMAIN tokenStore # {}
          => /\ Cardinality((DOMAIN tokenStore') \ DOMAIN tokenStore) = 1
             /\ Cardinality((DOMAIN otpStore) \ DOMAIN otpStore') = 1
             /\ \A t \in (DOMAIN tokenStore') \ DOMAIN tokenStore :
                   /\ MapHas(otpStore, tokenStore'[t].email)
                   /\ ~MapHas(otpStore', tokenStore'[t].email)]_vars

\* C10: the code that had minted a token was presented again, with no new
\* /send-otp for the email, and was refused for want of a challenge
C10_Witness ==
    /\ resp.op = "verify-otp"
    /\ resp.error = "No OTP requested or already used"
    /\ resp.req.otp \in quota.otps
    /\ used.sends = 1
    /\ \E t \in DOMAIN tokenStore : tokenStore[t].email = resp.req.email

(***************************************************************************)
(* Failures                                                                *)
(***************************************************************************)
\* C11: when the write of the directory fails in /register, users.json and
\* the token store stay as they were, and the handler then answers
\* 500 "Failed to save user", again leaving users.json, the token store and
\* the record of consumed tokens alone: the token presented is still stored
\* for a retry.
C11_WriteFailureConfined ==
    [][\A p \in DOMAIN procs :
         /\ WriteJson(p, FALSE)
            => /\ usersFile' = usersFile
               /\ tokenStore' = tokenStore
               /\ procs'[p].pc = "wrote"
               /\ ~procs'[p].ok
         /\ (procs[p].pc = "wrote" /\ ~procs[p].ok /\ RegisterFinish(p))
            => /\ resp' = RegisterReply(procs[p].name, procs[p].email,
                                        procs[p].token, 500,
                                        "Failed to save user")
               /\ usersFile' = usersFile
               /\ tokenStore' = tokenStore
               /\ consumed' = consumed
               /\ procs'[p] = IdleProc]_vars

\* C11: a retry with the token of a /register that had answered 500 has got
\* as far as a successful write: the token is still stored, for the same
\* email, and the directory now holds the user
C11_Witness ==
    /\ resp.op = "register"
    /\ resp.status = 500
    /\ \E p \in DOMAIN procs :
          /\ procs[p].pc = "wrote"
          /\ procs[p].ok
          /\ procs[p].token = resp.req.token
          /\ procs[p].email = resp.req.email
          /\ MapHas(tokenStore, procs[p].token)
          /\ tokenStore[procs[p].token].email = procs[p].email
          /\ usersFile.data = procs[p].users
    /\ used.reqs = 2

\* C12: an accepted /send-otp whose mail cannot be sent answers
\* 500 "Failed to send email" and leaves the new challenge stored (the new
\* code, expiry now + 300 s, no attempts). While that answer is the last one
\* given, a /verify-otp with the stored code no later than the expiry is
\* answered 200 with a token, and a /send-otp for the email with more than
\* 50 s of the challenge left is answered 429 and changes nothing.
C12_MailFailureKeepsChallenge ==
    [][\A e \in quota.emails :
         /\ \A otp \in quota.otps :
              (/\ ~(/\ MapHas(otpStore, e)
                    /\ otpStore[e].expiresAt - now > 50000)
               /\ SendOtp(e, otp, FALSE))
              => /\ resp' = SendOtpReply(e, 500, "Failed to send email")
                 /\ MapHas(otpStore', e)
                 /\ otpStore'[e] = [otp |-> otp,
                                    expiresAt |-> now + 300000,
                                    attempts |-> 0]
         /\ (/\ resp = SendOtpReply(e, 500, "Failed to send email")
             /\ MapHas(otpStore, e)
             /\ now <= otpStore[e].expiresAt
             /\ VerifyOtp(e, otpStore[e].otp))
            => /\ resp'.status = 200
               /\ resp'.op = "verify-otp"
               /\ MapHas(tokenStore', resp'.token)
               /\ tokenStore'[resp'.token].email = e
         /\ \A otp \in quota.otps, mailOk \in BOOLEAN :
              (/\ resp = SendOtpReply(e, 500, "Failed to send email")
               /\ MapHas(otpStore, e)
               /\ otpStore[e].expiresAt - now > 50000
               /\ SendOtp(e, otp, mailOk))
              => /\ resp' = SendOtpReply(e, 429, "Try again later")
                 /\ otpStore' = otpStore]_vars

\* C12: the mail failed some time ago and the challenge it left is still
\* stored and unexpired, past the resend window
C12_Witness ==
    \E e \in quota.emails :
       /\ resp = SendOtpReply(e, 500, "Failed to send email")
       /\ MapHas(otpStore, e)
       /\ otpStore[e].attempts = 0
       /\ now < otpStore[e].expiresAt
       /\ otpStore[e].expiresAt - now <= 50000

(***************************************************************************)
(* The directory over time                                                 *)
(***************************************************************************)
\* C13: the directory is append-only: in every step, each record of
\* users.json is still there afterwards, the same record at the same index.
C13_DirectoryAppendOnly ==
    [][/\ Len(usersFile'.data) >= Len(usersFile.data)
       /\ \A i \in 1..Len(usersFile.data) :
             usersFile'.data[i] = usersFile.data[i]]_vars

C15_VerifyOtpRaces ==
    \A e \in quota.emails :
       (/\ MapHas(otpStore, e)
        /\ now <= otpStore[e].expiresAt
        /\ otpStore[e].attempts < MAX_ATTEMPTS)
       => ENABLED (\E c \in quota.guesses :
                      /\ VerifyOtp(e, c)
                      /\ MapHas(otpStore', e)
                      /\ otpStore'[e].attempts <= otpStore[e].attempts)

\* C15, amended: /verify-otp requests for one email are served one after
\* the other, each in one step from its lookup to its decision: a request
\* that finds an unexpired challenge either deletes it or leaves it as it
\* was with exactly one more attempt counted, and between two such requests
\* only a /send-otp for the email or the janitor changes the challenge.
C15_VerifyOtpSerialised ==
    [][\A e \in quota.emails :
         (MapHas(otpStore, e) /\ now <= otpStore[e].expiresAt)
         => /\ \A c \in quota.guesses :
                 VerifyOtp(e, c)
                 => \/ ~MapHas(otpStore', e)
                    \/ otpStore'[e] =
                          [otpStore[e] EXCEPT !.attempts = otpStore[e].attempts + 1]
            /\ \/ \E c \in quota.guesses : VerifyOtp(e, c)
               \/ \E otp \in quota.otps, mailOk \in BOOLEAN : SendOtp(e, otp, mailOk)
               \/ Janitor
               \/ (MapHas(otpStore', e) /\ otpStore'[e] = otpStore[e])]_vars

\* C15: two /verify-otp requests for one email were served on one challenge,
\* sent only once, and both are counted
C15_Witness ==
    \E e \in quota.emails :
       /\ MapHas(otpStore, e)
       /\ otpStore[e].attempts = 2
       /\ used.sends = 1
       /\ resp.op = "verify-otp"
       /\ resp.req.email = e
       /\ resp.error = "Invalid OTP"

\* C16: a token registers at most once, however /register requests
\* interleave at their reads and writes of users.json: no /register answers
\* 200 for a token for which a /register has already answered 200.
C16_TokenSingleUseConcurrent ==
    [][\A p \in DOMAIN procs :
         (/\ procs[p].pc = "wrote"
          /\ procs[p].ok
          /\ RegisterFinish(p))
         => ~MapHas(consumed, procs[p].token)]_vars

(***************************************************************************)
(* The janitor                                                             *)
(***************************************************************************)
\* C17: a sweep at time now removes from the OTP store and from the token
\* store exactly the entries with expiresAt <= now and keeps the others as
\* they were, changes neither users.json nor a handler in flight, and a
\* second sweep at the same time would remove nothing more. A handler that
\* resumes after its await adds no entry to either store, and a /register
\* whose token was swept while it was writing still answers 200, the token
\* store staying as the sweep left it.
C17_SweepExactAndBenign ==
    [][/\ Janitor
          => /\ DOMAIN otpStore' =
                   {e \in DOMAIN otpStore : otpStore[e].expiresAt > now}
             /\ \A e \in DOMAIN otpStore' : otpStore'[e] = otpStore[e]
             /\ DOMAIN tokenStore' =
                   {t \in DOMAIN tokenStore : tokenStore[t].expiresAt > now}
             /\ \A t \in DOMAIN tokenStore' : tokenStore'[t] = tokenStore[t]
             /\ usersFile' = usersFile
             /\ procs' = procs
             /\ SweepExpired(otpStore', now') = otpStore'
             /\ SweepExpired(tokenStore', now') = tokenStore'
       /\ \A p \in DOMAIN procs :
             /\ (\/ PathExists(p)
                 \/ \E ioOk \in BOOLEAN, id \in UserIds : CreateFile(p, ioOk, id)
                 \/ \E ioOk \in BOOLEAN, id \in UserIds : ReadJson(p, ioOk, id)
                 \/ \E ioOk \in BOOLEAN : WriteJson(p, ioOk)
                 \/ RegisterFinish(p))
                => /\ DOMAIN otpStore' \subseteq DOMAIN otpStore
                   /\ DOMAIN tokenStore' \subseteq DOMAIN tokenStore
             /\ (/\ procs[p].pc = "wrote"
                 /\ procs[p].ok
                 /\ ~MapHas(tokenStore, procs[p].token)
                 /\ RegisterFinish(p))
                => /\ resp'.status = 200
                   /\ resp'.error = "Registered"
                   /\ tokenStore' = tokenStore]_vars

\* C17: a sweep has removed the token of the one /register in flight while
\* it was suspended in its write, which has succeeded
C17_Witness ==
    /\ quota.procs = 1
    /\ now = nextSweep - SWEEP_INTERVAL_MS
    /\ \E p \in DOMAIN procs :
          /\ procs[p].op = "register"
          /\ procs[p].pc = "wrote"
          /\ procs[p].ok
          /\ ~MapHas(tokenStore, procs[p].token)

(***************************************************************************)
(* Wrong codes                                                             *)
(***************************************************************************)
\* C18: a /verify-otp with a wrong code for an email whose challenge is
\* unexpired and has fewer than 6 attempts counted answers
\* 400 "Invalid OTP", counts exactly one more attempt and leaves the
\* challenge's code and expiry, the challenges of all other emails, the
\* token store and users.json as they were.
C18_WrongCodeCounted ==
    [][\A e \in quota.emails, c \in quota.guesses :
         (/\ MapHas(otpStore, e)
          /\ now <= otpStore[e].expiresAt
          /\ otpStore[e].attempts < 6
          /\ c # otpStore[e].otp
          /\ VerifyOtp(e, c))
         => /\ resp' = VerifyOtpReply(e, c, 400, "Invalid OTP")
            /\ DOMAIN otpStore' = DOMAIN otpStore
            /\ otpStore'[e].attempts = otpStore[e].attempts + 1
            /\ otpStore'[e].otp = otpStore[e].otp
            /\ otpStore'[e].expiresAt = otpStore[e].expiresAt
            /\ \A o \in DOMAIN otpStore \ {e} : otpStore'[o] = otpStore[o]
            /\ tokenStore' = tokenStore
            /\ usersFile' = usersFile]_vars

\* C18: the sixth wrong code for one email has been answered "Invalid OTP"
\* while another email has an untouched challenge
C18_Witness ==
    \E e \in quota.emails, o \in quota.emails :
       /\ o # e
       /\ resp = VerifyOtpReply(e, resp.req.otp, 400, "Invalid OTP")
       /\ MapHas(otpStore, e)
       /\ otpStore[e].attempts = 6
       /\ MapHas(otpStore, o)
       /\ otpStore[o].attempts = 0

(***************************************************************************)
(* Provenance                                                              *)
(***************************************************************************)
\* a token was minted for exactly this email: it is stored, or a /register
\* has consumed it (no token is swept in the workloads this is used in)
TokenMintedFor(email) ==
    \E t \in 1..used.tokens :
       \/ MapHas(tokenStore, t) /\ tokenStore[t].email = email
       \/ MapHas(consumed, t) /\ consumed[t] = email

\* every User record of users.json, and of the copy a /register in flight
\* holds, carries an email a token was minted for; the handler's own record
\* carries the email of the token it presented
RecordsAuthenticated ==
    /\ \A i \in 1..Len(usersFile.data) : TokenMintedFor(usersFile.data[i].email)
    /\ \A p \in DOMAIN procs :
          procs[p].op = "register"
          => /\ TokenMintedFor(procs[p].email)
             /\ \A i \in 1..Len(procs[p].users) :
                   TokenMintedFor(procs[p].users[i].email)
             /\ procs[p].pc \in {"writeJson", "wrote"}
                => procs[p].users[Len(procs[p].users)].email = procs[p].email

\* C19: a token enters the token store only in a /verify-otp step that
\* presents the stored code of the unexpired challenge of the token's email,
\* and is never altered afterwards; a /register gets past its token check
\* only with a stored token whose email is the form's email exactly; a
\* record enters users.json only in the write of such a /register; and
\* after every step each record, persisted or about to be, carries an email
\* for which a token was minted.
C19_Provenance ==
    [][/\ \A t \in DOMAIN tokenStore' :
            IF MapHas(tokenStore, t)
            THEN tokenStore'[t] = tokenStore[t]
            ELSE \E e \in quota.emails :
                    /\ MapHas(otpStore, e)
                    /\ now <= otpStore[e].expiresAt
                    /\ VerifyOtp(e, otpStore[e].otp)
                    /\ resp'.req = Request(e, otpStore[e].otp, NoName, NoToken)
                    /\ tokenStore'[t].email = e
       /\ \A p \in DOMAIN procs :
            (procs'[p].op = "register" /\ procs[p].op # "register")
            => /\ MapHas(tokenStore, procs'[p].token)
               /\ tokenStore[procs'[p].token].email = procs'[p].email
       /\ \A i \in 1..Len(usersFile'.data) :
            \/ \E j \in 1..Len(usersFile.data) :
                  usersFile.data[j] = usersFile'.data[i]
            \/ \E p \in DOMAIN procs :
                  /\ procs[p].op = "register"
                  /\ WriteJson(p, TRUE)
                  /\ usersFile'.data = procs[p].users
       /\ RecordsAuthenticated']_vars

\* C19: a user is persisted for one email, from a consumed token of that
\* email, while wrong codes have been counted against another email, for
\* which there is neither a token nor a user
C19_Witness ==
    \E e \in quota.emails, o \in quota.emails :
       /\ o # e
       /\ Len(usersFile.data) = 1
       /\ usersFile.data[1].email = e
       /\ \E t \in DOMAIN consumed : consumed[t] = e
       /\ MapHas(otpStore, o)
       /\ otpStore[o].attempts > 0
       /\ ~TokenMintedFor(o)

(***************************************************************************)
(* Eviction                                                                *)
(***************************************************************************)
\* C20: while time advances and the janitor keeps firing, every challenge
\* and every token that is stored is eventually absent from its store.
C20_EventuallyEvicted ==
    /\ \A e \in LiveLoad.emails :
          MapHas(otpStore, e) ~> ~MapHas(otpStore, e)
    /\ \A t \in 1..LiveTokens :
          MapHas(tokenStore, t) ~> ~MapHas(tokenStore, t)

\* C20: a challenge was sent and used, the token minted from it was never
\* consumed by a /register, and both stores are empty again: the token was
\* swept
C20_Witness ==
    /\ used.sends = 1
    /\ used.tokens = 1
    /\ consumed = <<>>
    /\ DOMAIN otpStore = {}
    /\ DOMAIN tokenStore = {}
    /\ now > TOKEN_EXPIRES_SECONDS * 1000
====
